---- MODULE Spec2Model ----
(***************************************************************************)
(* Model of the EventSystem repository.                                    *)
(*                                                                         *)
(* The repository holds two implementations of the dispatcher:            *)
(*   - src/EventSys.hpp : EventSystem<...> with Subscriber, Publisher and  *)
(*                        the optional SubscriptionManager;                *)
(*   - src/main.cpp     : a self-contained program with its own copy of    *)
(*                        EventSystem<...> (it does not include the        *)
(*                        header), without SubscriptionManager.            *)
(* `impl' fixes which of the two a behaviour runs.                         *)
(***************************************************************************)
EXTENDS Integers, Sequences, FiniteSets, TLC

\* ------------------------------------------------------------------ bounds
\* Cap on the number of Subscriber::sub calls of one behaviour (the counter
\* mNextSubscriptionID is a std::size_t and is never reset).
MaxSubs == 3

\* ------------------------------------------------------------- input sets
HPP  == "EventSys.hpp"
MAIN == "main.cpp"
Impls == {HPP, MAIN}

\* typeid(EventType): the event kinds of the system's parameter pack.
Kinds == {"EventType1", "EventType2"}

\* The std::function values handed to sub.  Two subscriptions may carry the
\* same callback.
Callbacks == {"cbA", "cbB"}

\* The Enum values of a SubscriptionManager.
Tags == {"Tag1", "Tag2"}

\* The SubscriptionManager objects bound to the one Subscriber.
Managers == {"M1", "M2"}

\* The managers that exist in the behaviours of SpecMgr.
MgrsAtStart == {"M1"}

DIRECT == "direct"
NONE   == "none"

\* ------------------------------------------------------------------ state
VARIABLES
    impl,                 \* which implementation this behaviour runs
    mCallbackMap,         \* EventSystem::mCallbackMap: kind -> vector of pairs
    mNextSubscriptionID,  \* Subscriber::mNextSubscriptionID
    mgrState,             \* per manager: "none" | "alive" | "destroyed"
    mSubscriptions,       \* per manager: tag -> pair (type_index, SubscriptionID)
    subLog,               \* history: every sub call made on the Subscriber
    fired,                \* history: the callback invocations of the last operation
    last                  \* history: the last operation, its arguments and result

vars == <<impl, mCallbackMap, mNextSubscriptionID, mgrState, mSubscriptions,
          subLog, fired, last>>

\* --------------------------------------------- std::unordered_map helpers
\* map[k] = v  (operator[] / try_emplace on an absent key, assignment on a
\* present one)
MapPut(map, k, v) ==
    [x \in (DOMAIN map) \cup {k} |-> IF x = k THEN v ELSE map[x]]

\* map.erase(it)
MapErase(map, k) ==
    [x \in (DOMAIN map) \ {k} |-> map[x]]

\* An unordered_map with no element.
EmptyMap == [x \in {} |-> NONE]

\* std::pair
Pair(a, b) == [first |-> a, second |-> b]

\* std::erase_if(vector, pred: pair.second == ID): the vector without the
\* elements whose ID matches, the others in their order.
EraseIf(callbackVector, ID) ==
    SelectSeq(callbackVector, LAMBDA callbackIDPair : callbackIDPair.second # ID)

\* ------------------------------------------- EventSys.hpp: Subscriber
\* A faulty sub: the new pair is put in front of the vector.
Faulty_sub_Front(map, nextID, EventType, callback) ==
    LET callbackVector == IF EventType \in DOMAIN map THEN map[EventType] ELSE <<>>
    IN  [mCallbackMap        |-> MapPut(map, EventType,
                                        <<Pair(callback, nextID)>> \o callbackVector),
         mNextSubscriptionID |-> nextID + 1,
         subID               |-> nextID]

\* A faulty sub: IDs are counted per kind instead of per system.
Faulty_sub_PerKindID(map, nextID, EventType, callback) ==
    LET callbackVector == IF EventType \in DOMAIN map THEN map[EventType] ELSE <<>>
        subID          == Len(callbackVector) + 1
    IN  [mCallbackMap        |-> MapPut(map, EventType,
                                        Append(callbackVector, Pair(callback, subID))),
         mNextSubscriptionID |-> nextID + 1,
         subID               |-> subID]

\* A faulty sub: the ID is the smallest one above 0 that no entry of the
\* table carries, so the ID of a removed subscription is issued again.
Faulty_sub_ReuseID(map, nextID, EventType, callback) ==
    LET callbackVector == IF EventType \in DOMAIN map THEN map[EventType] ELSE <<>>
        used  == UNION {{map[k][j].second : j \in DOMAIN map[k]} : k \in DOMAIN map}
        subID == CHOOSE id \in 1 .. nextID :
                    id \notin used /\ \A x \in 1 .. (id - 1) : x \in used
    IN  [mCallbackMap        |-> MapPut(map, EventType,
                                        Append(callbackVector, Pair(callback, subID))),
         mNextSubscriptionID |-> nextID + 1,
         subID               |-> subID]

\* Subscriber::sub<EventType>(callback).  The result carries the new
\* dispatch table, the new counter and the returned subID.
Subscriber_sub(map, nextID, EventType, callback) ==
    LET callbackVector == IF EventType \in DOMAIN map THEN map[EventType] ELSE <<>>
        subID          == nextID
    IN  [mCallbackMap        |-> MapPut(map, EventType,
                                        Append(callbackVector, Pair(callback, subID))),
         mNextSubscriptionID |-> nextID + 1,
         subID               |-> subID]

\* A faulty unsub: finding the ID in the sequence, it erases the whole key
\* of the kind instead of the one entry.
Faulty_unsub_ErasesBucket(map, ID, eventTypeIdx) ==
    IF eventTypeIdx \in DOMAIN map
    THEN LET wasCallbackErased == EraseIf(map[eventTypeIdx], ID) # map[eventTypeIdx]
         IN  [mCallbackMap |-> IF wasCallbackErased THEN MapErase(map, eventTypeIdx) ELSE map,
              ret          |-> wasCallbackErased]
    ELSE [mCallbackMap |-> map, ret |-> FALSE]

\* A faulty unsub: when no entry of the sequence carries the ID, the last
\* entry is erased in its place.
Faulty_unsub_PopBack(map, ID, eventTypeIdx) ==
    IF eventTypeIdx \in DOMAIN map
    THEN LET erased == EraseIf(map[eventTypeIdx], ID)
             wasCallbackErased == Len(erased) # Len(map[eventTypeIdx])
             callbackVector == IF wasCallbackErased THEN erased
                               ELSE SubSeq(erased, 1, Len(erased) - 1)
         IN  [mCallbackMap |-> IF callbackVector = <<>> THEN MapErase(map, eventTypeIdx)
                               ELSE MapPut(map, eventTypeIdx, callbackVector),
              ret          |-> wasCallbackErased]
    ELSE [mCallbackMap |-> map, ret |-> FALSE]

\* Subscriber::unsub(SubscriptionID ID, std::type_index eventTypeIdx)
Subscriber_unsub(map, ID, eventTypeIdx) ==
    IF eventTypeIdx \in DOMAIN map
    THEN LET callbackVector    == EraseIf(map[eventTypeIdx], ID)
             wasCallbackErased == Len(callbackVector) # Len(map[eventTypeIdx])
         IN  [mCallbackMap |-> IF callbackVector = <<>>
                               THEN MapErase(map, eventTypeIdx)
                               ELSE MapPut(map, eventTypeIdx, callbackVector),
              ret          |-> wasCallbackErased]
    ELSE [mCallbackMap |-> map, ret |-> FALSE]

\* Subscriber::unsub<EventType>(subID): the public entry, which forwards.
Subscriber_unsub_EventType(map, EventType, subID) ==
    Subscriber_unsub(map, subID, EventType)

\* A faulty pub: the typeid of the event is ignored and the callbacks of
\* every key of the map are invoked with the event.
RECURSIVE Faulty_pub_AllBuckets(_, _)
Faulty_pub_AllBuckets(map, kind) ==
    IF DOMAIN map = {} THEN <<>>
    ELSE LET k == CHOOSE x \in DOMAIN map : TRUE
         IN  [i \in 1 .. Len(map[k]) |->
                 [cb |-> map[k][i].first, id |-> map[k][i].second, e |-> kind]]
             \o Faulty_pub_AllBuckets(MapErase(map, k), kind)

\* -------------------------------------------- EventSys.hpp: Publisher
\* A faulty pub: the iterator returned by find is used without the test
\* against end(), so a kind that is no key dispatches some other bucket.
Faulty_pub_NoEndTest(map, kind) ==
    LET bucket == IF kind \in DOMAIN map \/ DOMAIN map = {} THEN kind
                  ELSE CHOOSE k \in DOMAIN map : TRUE
    IN  IF bucket \in DOMAIN map
        THEN [i \in 1 .. Len(map[bucket]) |->
                [cb |-> map[bucket][i].first, id |-> map[bucket][i].second, e |-> kind]]
        ELSE <<>>

\* Publisher::pub(e), typeid(e) = kind: the callback invocations it makes, in
\* the order it makes them.  Each invocation is written down with the entry
\* it came from and the event it was handed.
Publisher_pub(map, kind) ==
    IF kind \in DOMAIN map
    THEN [i \in 1 .. Len(map[kind]) |->
            [cb |-> map[kind][i].first, id |-> map[kind][i].second, e |-> kind]]
    ELSE <<>>

\* ---------------------------------------------- main.cpp: Subscriber
\* main.cpp's Subscriber::sub<EventType>(callback)
Main_Subscriber_sub(map, nextID, EventType, callback) ==
    LET callbackVector == IF EventType \in DOMAIN map THEN map[EventType] ELSE <<>>
        subID          == nextID
    IN  [mCallbackMap        |-> MapPut(map, EventType,
                                        Append(callbackVector, Pair(callback, subID))),
         mNextSubscriptionID |-> nextID + 1,
         subID               |-> subID]

\* main.cpp's void Subscriber::unsub<EventType>(subID): operator[] inserts an
\* empty vector for an absent kind, and nothing prunes an emptied vector.
Main_Subscriber_unsub(map, EventType, subID) ==
    LET callbackVector == IF EventType \in DOMAIN map THEN map[EventType] ELSE <<>>
    IN  [mCallbackMap |-> MapPut(map, EventType, EraseIf(callbackVector, subID))]

\* main.cpp's Publisher::pub(e)
Main_Publisher_pub(map, kind) ==
    IF kind \in DOMAIN map
    THEN [i \in 1 .. Len(map[kind]) |->
            [cb |-> map[kind][i].first, id |-> map[kind][i].second, e |-> kind]]
    ELSE <<>>

\* --------------------------------- EventSys.hpp: SubscriptionManager
\* A faulty manager sub: the test for an already registered tag is missing;
\* try_emplace keeps the old record.
Faulty_mgr_sub_NoGuard(subs, map, nextID, subscriptionTag, EventType, callback) ==
    LET r == Subscriber_sub(map, nextID, EventType, callback)
    IN  [ret |-> TRUE, called |-> TRUE,
         mSubscriptions |-> IF subscriptionTag \in DOMAIN subs THEN subs
                            ELSE MapPut(subs, subscriptionTag, Pair(EventType, r.subID)),
         mCallbackMap |-> r.mCallbackMap,
         mNextSubscriptionID |-> r.mNextSubscriptionID,
         subID |-> r.subID]

\* SubscriptionManager::sub<EventType>(subscriptionTag, callback); subs is
\* this manager's mSubscriptions.  called tells whether mSubscriber.sub ran.
SubscriptionManager_sub(subs, map, nextID, subscriptionTag, EventType, callback) ==
    IF subscriptionTag \in DOMAIN subs
    THEN [ret |-> FALSE, called |-> FALSE, mSubscriptions |-> subs,
          mCallbackMap |-> map, mNextSubscriptionID |-> nextID, subID |-> 0]
    ELSE LET r == Subscriber_sub(map, nextID, EventType, callback)
         IN  [ret |-> TRUE, called |-> TRUE,
              mSubscriptions |-> MapPut(subs, subscriptionTag, Pair(EventType, r.subID)),
              mCallbackMap |-> r.mCallbackMap,
              mNextSubscriptionID |-> r.mNextSubscriptionID,
              subID |-> r.subID]

\* A faulty manager unsub: the record is not erased after the removal.
Faulty_mgr_unsub_KeepRecord(subs, map, subscriptionTag) ==
    IF subscriptionTag \in DOMAIN subs
    THEN LET r == Subscriber_unsub(map, subs[subscriptionTag].second,
                                   subs[subscriptionTag].first)
         IN  [ret |-> r.ret, mSubscriptions |-> subs, mCallbackMap |-> r.mCallbackMap]
    ELSE [ret |-> FALSE, mSubscriptions |-> subs, mCallbackMap |-> map]

\* A faulty manager unsub: the record is erased whatever the Subscriber's
\* unsub returned.
Faulty_mgr_unsub_EraseAlways(subs, map, subscriptionTag) ==
    IF subscriptionTag \in DOMAIN subs
    THEN LET r == Subscriber_unsub(map, subs[subscriptionTag].second,
                                   subs[subscriptionTag].first)
         IN  [ret |-> r.ret, mSubscriptions |-> MapErase(subs, subscriptionTag),
              mCallbackMap |-> r.mCallbackMap]
    ELSE [ret |-> FALSE, mSubscriptions |-> subs, mCallbackMap |-> map]

\* SubscriptionManager::unsub(subscriptionTag)
SubscriptionManager_unsub(subs, map, subscriptionTag) ==
    IF subscriptionTag \in DOMAIN subs
    THEN LET typeIndex == subs[subscriptionTag].first
             subID     == subs[subscriptionTag].second
             r         == Subscriber_unsub(map, subID, typeIndex)
             wasCallbackRemoved == r.ret
         IN  [ret |-> wasCallbackRemoved,
              mSubscriptions |-> IF wasCallbackRemoved
                                 THEN MapErase(subs, subscriptionTag) ELSE subs,
              mCallbackMap |-> r.mCallbackMap]
    ELSE [ret |-> FALSE, mSubscriptions |-> subs, mCallbackMap |-> map]

\* The orders in which a range-for may visit the elements of an
\* unordered_map with key set S: the standard fixes none.
IterationOrders(S) ==
    {order \in [1 .. Cardinality(S) -> S] :
        \A i, j \in 1 .. Cardinality(S) : i # j => order[i] # order[j]}

\* The loop of ubsubFromAll over the records, visited in `order'.
RECURSIVE UnsubEach(_, _, _)
UnsubEach(subs, map, order) ==
    IF order = <<>> THEN map
    ELSE LET sub == subs[Head(order)]
         IN  UnsubEach(subs, Subscriber_unsub(map, sub.second, sub.first).mCallbackMap,
                       Tail(order))

\* A faulty ubsubFromAll: the registry is cleared, the loop is missing.
Faulty_ubsubFromAll_ClearOnly(subs, map, order) ==
    [mSubscriptions |-> EmptyMap, mCallbackMap |-> map]

\* SubscriptionManager::ubsubFromAll()
SubscriptionManager_ubsubFromAll(subs, map, order) ==
    [mSubscriptions |-> EmptyMap, mCallbackMap |-> UnsubEach(subs, map, order)]

\* ---------------------------------------------------- history variables
\* Text of a bool result.
BoolText(b) == IF b THEN "true" ELSE "false"

\* One sub call on the Subscriber: the ID it returned, the kind and callback
\* it was given, who made it (DIRECT or a manager) and under which tag, and
\* whether unsub has since been called with this ID and this kind.  Once it
\* has, the log keeps only the ID and who made the call.
SubRecord(id, kind, cb, via, tag) ==
    [id |-> id, kind |-> kind, cb |-> cb, via |-> via, tag |-> tag, live |-> TRUE]

\* The log after a call unsub(kind, id) on the Subscriber.
MarkUnsub(log, kind, id) ==
    [i \in DOMAIN log |->
        IF log[i].kind = kind /\ log[i].id = id
        THEN [log[i] EXCEPT !.live = FALSE, !.kind = NONE, !.cb = NONE, !.tag = NONE]
        ELSE log[i]]

\* The log after the unsub calls of ubsubFromAll.
RECURSIVE MarkUnsubEach(_, _, _)
MarkUnsubEach(log, subs, order) ==
    IF order = <<>> THEN log
    ELSE MarkUnsubEach(MarkUnsub(log, subs[Head(order)].first, subs[Head(order)].second),
                       subs, Tail(order))

\* The record of `last' before any operation.
NoOp ==
    [op |-> "init", kind |-> NONE, id |-> 0, cb |-> NONE, tag |-> NONE, mgr |-> NONE,
     ret |-> NONE, prev |-> NONE, n |-> 0]

\* The record of an operation: what was called, with which arguments, and
\* what it returned (id holds the ID passed to unsub or returned by sub).
Op(op, kind, id, cb, tag, mgr, ret) ==
    [op |-> op, kind |-> kind, id |-> id, cb |-> cb, tag |-> tag, mgr |-> mgr,
     ret |-> ret, prev |-> NONE, n |-> 0]

\* The record of manager.unsub(tag): prev holds the result of the operation
\* before it when that was the same call on the same manager and tag.
OpMgrUnsub(mgr, tag, ret) ==
    [Op("mgrUnsub", NONE, 0, NONE, tag, mgr, ret) EXCEPT
        !.prev = IF last.op = "mgrUnsub" /\ last.mgr = mgr /\ last.tag = tag
                 THEN last.ret ELSE NONE]

\* The record of ubsubFromAll or of the destructor of manager mgr, which
\* visited n records.
OpAll(op, mgr, n) == [Op(op, NONE, 0, NONE, NONE, mgr, "void") EXCEPT !.n = n]

\* ----------------------------------------------------------- initial state
\* A freshly constructed EventSystem: an empty dispatch table, the counter at
\* its member initializer (1 in EventSys.hpp, 0 in main.cpp), no manager.
Init ==
    /\ impl \in Impls
    /\ mCallbackMap = EmptyMap
    /\ mNextSubscriptionID = (IF impl = HPP THEN 1 ELSE 0)
    /\ mgrState = [m \in Managers |-> "none"]
    /\ mSubscriptions = [m \in Managers |-> EmptyMap]
    /\ subLog = <<>>
    /\ fired = <<>>
    /\ last = NoOp

\* EventSys.hpp's EventSystem with the SubscriptionManagers of MgrsAtStart
\* constructed on its Subscriber: each starts with no record.
InitMgr ==
    /\ impl = HPP
    /\ mCallbackMap = EmptyMap
    /\ mNextSubscriptionID = 1
    /\ mgrState = [m \in Managers |-> IF m \in MgrsAtStart THEN "alive" ELSE "none"]
    /\ mSubscriptions = [m \in Managers |-> EmptyMap]
    /\ subLog = <<>>
    /\ fired = <<>>
    /\ last = NoOp

\* ----------------------------------------------- actions of EventSys.hpp
\* getSubscriber().sub<EventType>(callback)
HppSub(EventType, callback) ==
    /\ impl = HPP
    /\ Len(subLog) < MaxSubs
    /\ LET r == Subscriber_sub(mCallbackMap, mNextSubscriptionID, EventType, callback)
       IN  /\ mCallbackMap' = r.mCallbackMap
           /\ mNextSubscriptionID' = r.mNextSubscriptionID
           /\ subLog' = Append(subLog, SubRecord(r.subID, EventType, callback, DIRECT, NONE))
           /\ last' = Op("sub", EventType, r.subID, callback, NONE, DIRECT, "id")
    /\ fired' = <<>>
    /\ UNCHANGED <<impl, mgrState, mSubscriptions>>

\* getSubscriber().unsub<EventType>(subID)
HppUnsub(EventType, subID) ==
    /\ impl = HPP
    /\ LET r == Subscriber_unsub_EventType(mCallbackMap, EventType, subID)
       IN  /\ mCallbackMap' = r.mCallbackMap
           /\ last' = Op("unsub", EventType, subID, NONE, NONE, DIRECT, BoolText(r.ret))
    /\ subLog' = MarkUnsub(subLog, EventType, subID)
    /\ fired' = <<>>
    /\ UNCHANGED <<impl, mNextSubscriptionID, mgrState, mSubscriptions>>

\* getPublisher().pub(e) with typeid(e) = kind
HppPub(kind) ==
    /\ impl = HPP
    /\ fired' = Publisher_pub(mCallbackMap, kind)
    /\ last' = Op("pub", kind, 0, NONE, NONE, DIRECT, "void")
    /\ UNCHANGED <<impl, mCallbackMap, mNextSubscriptionID, mgrState, mSubscriptions, subLog>>

\* manager.sub<EventType>(subscriptionTag, callback)
MgrSub(m, subscriptionTag, EventType, callback) ==
    /\ impl = HPP
    /\ mgrState[m] = "alive"
    /\ (subscriptionTag \in DOMAIN mSubscriptions[m] \/ Len(subLog) < MaxSubs)
    /\ LET r == SubscriptionManager_sub(mSubscriptions[m], mCallbackMap,
                                        mNextSubscriptionID, subscriptionTag,
                                        EventType, callback)
       IN  /\ mSubscriptions' = [mSubscriptions EXCEPT ![m] = r.mSubscriptions]
           /\ mCallbackMap' = r.mCallbackMap
           /\ mNextSubscriptionID' = r.mNextSubscriptionID
           /\ subLog' = IF r.called
                        THEN Append(subLog, SubRecord(r.subID, EventType, callback,
                                                      m, subscriptionTag))
                        ELSE subLog
           /\ last' = Op("mgrSub", EventType, r.subID, callback, subscriptionTag, m,
                         BoolText(r.ret))
    /\ fired' = <<>>
    /\ UNCHANGED <<impl, mgrState>>

\* manager.unsub(subscriptionTag)
MgrUnsub(m, subscriptionTag) ==
    /\ impl = HPP
    /\ mgrState[m] = "alive"
    /\ LET subs == mSubscriptions[m]
           r    == SubscriptionManager_unsub(subs, mCallbackMap, subscriptionTag)
       IN  /\ mSubscriptions' = [mSubscriptions EXCEPT ![m] = r.mSubscriptions]
           /\ mCallbackMap' = r.mCallbackMap
           /\ subLog' = IF subscriptionTag \in DOMAIN subs
                        THEN MarkUnsub(subLog, subs[subscriptionTag].first,
                                       subs[subscriptionTag].second)
                        ELSE subLog
           /\ last' = OpMgrUnsub(m, subscriptionTag, BoolText(r.ret))
    /\ fired' = <<>>
    /\ UNCHANGED <<impl, mNextSubscriptionID, mgrState>>

\* manager.ubsubFromAll()
MgrUbsubFromAll(m) ==
    /\ impl = HPP
    /\ mgrState[m] = "alive"
    /\ \E order \in IterationOrders(DOMAIN mSubscriptions[m]) :
         LET subs == mSubscriptions[m]
             r    == SubscriptionManager_ubsubFromAll(subs, mCallbackMap, order)
         IN  /\ mSubscriptions' = [mSubscriptions EXCEPT ![m] = r.mSubscriptions]
             /\ mCallbackMap' = r.mCallbackMap
             /\ subLog' = MarkUnsubEach(subLog, subs, order)
    /\ last' = OpAll("ubsubFromAll", m, Cardinality(DOMAIN mSubscriptions[m]))
    /\ fired' = <<>>
    /\ UNCHANGED <<impl, mNextSubscriptionID, mgrState>>

\* ~SubscriptionManager(): ubsubFromAll, then the object is gone.
MgrDtor(m) ==
    /\ impl = HPP
    /\ mgrState[m] = "alive"
    /\ \E order \in IterationOrders(DOMAIN mSubscriptions[m]) :
         LET subs == mSubscriptions[m]
             r    == SubscriptionManager_ubsubFromAll(subs, mCallbackMap, order)
         IN  /\ mSubscriptions' = [mSubscriptions EXCEPT ![m] = r.mSubscriptions]
             /\ mCallbackMap' = r.mCallbackMap
             /\ subLog' = MarkUnsubEach(subLog, subs, order)
    /\ mgrState' = [mgrState EXCEPT ![m] = "destroyed"]
    /\ last' = OpAll("mgrDtor", m, Cardinality(DOMAIN mSubscriptions[m]))
    /\ fired' = <<>>
    /\ UNCHANGED <<impl, mNextSubscriptionID>>

\* --------------------------------------------------- actions of main.cpp
\* subscriber.sub<EventType>(callback)
MainSub(EventType, callback) ==
    /\ impl = MAIN
    /\ Len(subLog) < MaxSubs
    /\ LET r == Main_Subscriber_sub(mCallbackMap, mNextSubscriptionID, EventType, callback)
       IN  /\ mCallbackMap' = r.mCallbackMap
           /\ mNextSubscriptionID' = r.mNextSubscriptionID
           /\ subLog' = Append(subLog, SubRecord(r.subID, EventType, callback, DIRECT, NONE))
           /\ last' = Op("sub", EventType, r.subID, callback, NONE, DIRECT, "id")
    /\ fired' = <<>>
    /\ UNCHANGED <<impl, mgrState, mSubscriptions>>

\* subscriber.unsub<EventType>(subID), which returns nothing
MainUnsub(EventType, subID) ==
    /\ impl = MAIN
    /\ LET r == Main_Subscriber_unsub(mCallbackMap, EventType, subID)
       IN  mCallbackMap' = r.mCallbackMap
    /\ last' = Op("unsub", EventType, subID, NONE, NONE, DIRECT, "void")
    /\ subLog' = MarkUnsub(subLog, EventType, subID)
    /\ fired' = <<>>
    /\ UNCHANGED <<impl, mNextSubscriptionID, mgrState, mSubscriptions>>

\* publisher.pub(e) with typeid(e) = kind
MainPub(kind) ==
    /\ impl = MAIN
    /\ fired' = Main_Publisher_pub(mCallbackMap, kind)
    /\ last' = Op("pub", kind, 0, NONE, NONE, DIRECT, "void")
    /\ UNCHANGED <<impl, mCallbackMap, mNextSubscriptionID, mgrState, mSubscriptions, subLog>>

\* ---------------------------------------------------------- specification
\* The SubscriptionIDs a caller passes to unsub: every ID that some entry of
\* the table carries, and 0.  erase_if compares the ID with each entry's, so
\* the IDs that no entry carries all fare as one of them does; in
\* EventSys.hpp 0 is such an ID in every state.
UnsubIDs ==
    {0} \cup UNION {{mCallbackMap[k][j].second : j \in DOMAIN mCallbackMap[k]} :
                       k \in DOMAIN mCallbackMap}

\* Both implementations, used through Subscriber and Publisher alone.
Next ==
    \/ \E k \in Kinds, cb \in Callbacks : HppSub(k, cb)
    \/ \E k \in Kinds, id \in UnsubIDs : HppUnsub(k, id)
    \/ \E k \in Kinds : HppPub(k)
    \/ \E k \in Kinds, cb \in Callbacks : MainSub(k, cb)
    \/ \E k \in Kinds, id \in UnsubIDs : MainUnsub(k, id)
    \/ \E k \in Kinds : MainPub(k)

Spec == Init /\ [][Next]_vars

\* EventSys.hpp used through SubscriptionManagers and, next to them,
\* through Subscriber and Publisher directly.
NextMgr ==
    \/ \E k \in Kinds, cb \in Callbacks : HppSub(k, cb)
    \/ \E k \in Kinds, id \in UnsubIDs : HppUnsub(k, id)
    \/ \E k \in Kinds : HppPub(k)
    \/ \E m \in Managers, t \in Tags, k \in Kinds, cb \in Callbacks : MgrSub(m, t, k, cb)
    \/ \E m \in Managers, t \in Tags : MgrUnsub(m, t)
    \/ \E m \in Managers : MgrUbsubFromAll(m)
    \/ \E m \in Managers : MgrDtor(m)

SpecMgr == InitMgr /\ [][NextMgr]_vars

\* ------------------------------------------------- vocabulary of the claims
\* EventSystem::INVALID_SUBSCRIPTION_ID
INVALID_SUBSCRIPTION_ID == 0

\* The callback sequence of kind k: empty for a kind that is no key.
Entries(map, k) == IF k \in DOMAIN map THEN map[k] ELSE <<>>

\* The subscriptions for kind k that are live by the calls made so far (sub
\* returned them, no unsub was called with their ID under k), in the order
\* of their sub calls.
LiveOf(log, k) == SelectSeq(log, LAMBDA r : r.live /\ r.kind = k)

\* id was returned by a sub for kind k and unsub(k, id) was not called since.
IsLive(log, k, id) ==
    \E i \in DOMAIN log : log[i].live /\ log[i].kind = k /\ log[i].id = id

\* The invocations a pub of kind k owes to the live subscriptions of k.
Owed(log, k) ==
    [i \in 1 .. Len(LiveOf(log, k)) |->
        [cb |-> LiveOf(log, k)[i].cb, id |-> LiveOf(log, k)[i].id, e |-> k]]

\* seq without its j-th element.
Without(seq, j) == SubSeq(seq, 1, j - 1) \o SubSeq(seq, j + 1, Len(seq))

\* The IDs of the invocations of the last operation.
FiredIDs == {fired[i].id : i \in DOMAIN fired}

\* ------------------------------------------------------------------ C1
\* C1: pub of an instance of kind K invokes exactly the callbacks of the
\* subscriptions for K that are live at that moment, each exactly once, in
\* the order in which they were registered.
C1_PubInvokesLiveInRegistrationOrder ==
    last.op = "pub" => fired = Owed(subLog, last.kind)

\* C1 happens: a pub that invoked two callbacks, registered before and after
\* a subscription of the same kind that was removed in between.
C1_Witness ==
    /\ last.op = "pub"
    /\ Len(fired) = 2
    /\ \E i \in DOMAIN subLog :
          /\ ~subLog[i].live
          /\ fired[1].id < subLog[i].id
          /\ subLog[i].id < fired[2].id

\* ------------------------------------------------------------------ C2
\* C2: unsub(K, id), where id was issued by sub for kind K and is still
\* live, returns true and removes exactly that one entry: every other entry
\* of K and every entry of every other kind stays, in the same order; and no
\* later pub invokes a removed callback.
C2_UnsubRemovesExactlyThatEntry ==
    [][ /\ (last'.op = "unsub" /\ IsLive(subLog, last'.kind, last'.id)) =>
              /\ last'.ret = "true"
              /\ \E j \in 1 .. Len(Entries(mCallbackMap, last'.kind)) :
                    /\ Entries(mCallbackMap, last'.kind)[j].second = last'.id
                    /\ Entries(mCallbackMap', last'.kind)
                          = Without(Entries(mCallbackMap, last'.kind), j)
              /\ \A k \in Kinds \ {last'.kind} :
                    Entries(mCallbackMap', k) = Entries(mCallbackMap, k)
        /\ last'.op = "pub" =>
              \A i \in DOMAIN subLog' : ~subLog'[i].live => subLog'[i].id \notin FiredIDs'
      ]_vars

\* What of C2 both implementations do: the removal itself, whatever unsub
\* returns.
C2_RemovalInBothImplementations ==
    [][ /\ (last'.op = "unsub" /\ IsLive(subLog, last'.kind, last'.id)) =>
              /\ impl = HPP => last'.ret = "true"
              /\ \E j \in 1 .. Len(Entries(mCallbackMap, last'.kind)) :
                    /\ Entries(mCallbackMap, last'.kind)[j].second = last'.id
                    /\ Entries(mCallbackMap', last'.kind)
                          = Without(Entries(mCallbackMap, last'.kind), j)
              /\ \A k \in Kinds \ {last'.kind} :
                    Entries(mCallbackMap', k) = Entries(mCallbackMap, k)
        /\ last'.op = "pub" =>
              \A i \in DOMAIN subLog' : ~subLog'[i].live => subLog'[i].id \notin FiredIDs'
      ]_vars

\* ------------------------------------------------------------------ C3
\* C3: unsub(K, id), where id was issued for a different kind K2 (and is
\* live there), returns false and leaves the dispatch table as it was (same
\* keys, same entries, same order); the entry of id is still in the sequence
\* of K2, and a pub of K2 invokes every live subscription of K2.
C3_CrossKindUnsubChangesNothing ==
    [][ /\ \A k2 \in Kinds :
              (/\ last'.op = "unsub"
               /\ k2 # last'.kind
               /\ IsLive(subLog, k2, last'.id)) =>
                  /\ last'.ret = "false"
                  /\ mCallbackMap' = mCallbackMap
                  /\ \E j \in 1 .. Len(Entries(mCallbackMap', k2)) :
                        Entries(mCallbackMap', k2)[j].second = last'.id
        /\ last'.op = "pub" =>
              \A i \in DOMAIN subLog' :
                  (subLog'[i].live /\ subLog'[i].kind = last'.kind)
                      => subLog'[i].id \in FiredIDs'
      ]_vars

\* C3 restricted to EventSys.hpp.
C3_InEventSysHpp ==
    [][ /\ \A k2 \in Kinds :
              (/\ impl = HPP
               /\ last'.op = "unsub"
               /\ k2 # last'.kind
               /\ IsLive(subLog, k2, last'.id)) =>
                  /\ last'.ret = "false"
                  /\ mCallbackMap' = mCallbackMap
                  /\ \E j \in 1 .. Len(Entries(mCallbackMap', k2)) :
                        Entries(mCallbackMap', k2)[j].second = last'.id
        /\ last'.op = "pub" =>
              \A i \in DOMAIN subLog' :
                  (subLog'[i].live /\ subLog'[i].kind = last'.kind)
                      => subLog'[i].id \in FiredIDs'
      ]_vars

\* ------------------------------------------------------------------ C4
\* C4: every ID returned by sub is greater than every ID returned by an
\* earlier sub, whatever the kinds and whether or not the earlier
\* subscription was removed: IDs are unique across kinds and never reused.
C4_IDsStrictlyIncreasing ==
    /\ \A i, j \in DOMAIN subLog : i < j => subLog[i].id < subLog[j].id
    /\ last.op = "sub" => last.id = subLog[Len(subLog)].id

\* C4 happens: a sub of one kind that follows the removal of an earlier
\* subscription of another kind.
C4_Witness ==
    /\ last.op = "sub"
    /\ Len(subLog) = MaxSubs
    /\ \E i \in 1 .. Len(subLog) - 1 : ~subLog[i].live
    /\ \E i \in 1 .. Len(subLog) - 1 : subLog[i].live /\ subLog[i].kind # last.kind

\* ------------------------------------------------------------------ C5
\* C5: the sentinel ID 0 is never returned by sub and never stored in a
\* callback entry of the dispatch table.
C5_SentinelNeverIssued ==
    /\ \A i \in DOMAIN subLog : subLog[i].id # INVALID_SUBSCRIPTION_ID
    /\ \A k \in DOMAIN mCallbackMap : \A j \in DOMAIN mCallbackMap[k] :
          mCallbackMap[k][j].second # INVALID_SUBSCRIPTION_ID

\* C5 restricted to EventSys.hpp.
C5_InEventSysHpp == impl = HPP => C5_SentinelNeverIssued

\* ------------------------------------------------------------------ C6
\* C6: a kind is a key of the dispatch table if and only if its callback
\* sequence is non-empty, which is if and only if it has a live subscription.
C6_KeyIffNonEmpty ==
    \A k \in Kinds :
        /\ (k \in DOMAIN mCallbackMap) <=> (Entries(mCallbackMap, k) # <<>>)
        /\ (k \in DOMAIN mCallbackMap) <=> (LiveOf(subLog, k) # <<>>)

\* C6 restricted to EventSys.hpp.
C6_InEventSysHpp == impl = HPP => C6_KeyIffNonEmpty

\* ------------------------------------------------------------------ C7
\* C7: pub of an instance of a kind with zero live subscriptions invokes no
\* callback and leaves the dispatch table unchanged.
C7_PubWithoutSubscribersIsNoOp ==
    [][ (last'.op = "pub" /\ LiveOf(subLog, last'.kind) = <<>>) =>
            /\ fired' = <<>>
            /\ mCallbackMap' = mCallbackMap
      ]_vars

\* C7 happens: a pub of a kind whose subscriptions were all removed, while
\* the other kind has a live subscription.
C7_Witness ==
    /\ last.op = "pub"
    /\ fired = <<>>
    /\ LiveOf(subLog, last.kind) = <<>>
    /\ \E i \in DOMAIN subLog : ~subLog[i].live
    /\ \E i \in DOMAIN subLog : subLog[i].live /\ subLog[i].kind # last.kind

\* ------------------------------------- vocabulary of the manager's claims
\* The IDs of the entries of the callback sequence of kind k.
EntryIDs(map, k) == {Entries(map, k)[j].second : j \in DOMAIN Entries(map, k)}

\* The IDs of all entries of the dispatch table.
TableIDs(map) == UNION {EntryIDs(map, k) : k \in Kinds}

\* The IDs of the callbacks a pub of kind k would invoke in a state whose
\* dispatch table is map.
WouldFire(map, k) ==
    {Publisher_pub(map, k)[i].id : i \in DOMAIN Publisher_pub(map, k)}

\* ------------------------------------------------------------------ C8
\* C8 as stated: SubscriptionManager sub on a tag that is already REGISTERED
\* returns false and mutates nothing (record, dispatch table, counter), the
\* new callback is not registered, and the original registration still fires
\* on pub of its kind.
C8_DuplicateTagSubOriginalStillFires ==
    [][ (last'.op = "mgrSub" /\ last'.tag \in DOMAIN mSubscriptions[last'.mgr]) =>
            /\ last'.ret = "false"
            /\ UNCHANGED <<mSubscriptions, mCallbackMap, mNextSubscriptionID, subLog>>
            /\ mSubscriptions[last'.mgr][last'.tag].second
                  \in WouldFire(mCallbackMap',
                                mSubscriptions[last'.mgr][last'.tag].first)
      ]_vars

\* C8 as amended: the same, except that the original registration fires on
\* pub of its kind provided unsub was not called directly on the Subscriber
\* with its ID and kind; after such a call the tag is still REGISTERED, sub
\* still returns false and mutates nothing, and the original does not fire.
C8_DuplicateTagSubMutatesNothing ==
    [][ (last'.op = "mgrSub" /\ last'.tag \in DOMAIN mSubscriptions[last'.mgr]) =>
            LET rec == mSubscriptions[last'.mgr][last'.tag]
            IN  /\ last'.ret = "false"
                /\ UNCHANGED <<mSubscriptions, mCallbackMap, mNextSubscriptionID, subLog>>
                /\ IsLive(subLog, rec.first, rec.second)
                      <=> rec.second \in WouldFire(mCallbackMap', rec.first)
      ]_vars

\* C8 happens: a sub on a REGISTERED tag, with a callback other than the
\* registered one, returned false while the original entry is in the table.
C8_Witness ==
    /\ last.op = "mgrSub"
    /\ last.ret = "false"
    /\ last.tag \in DOMAIN mSubscriptions[last.mgr]
    /\ LET rec == mSubscriptions[last.mgr][last.tag]
       IN  \E j \in DOMAIN Entries(mCallbackMap, rec.first) :
              /\ Entries(mCallbackMap, rec.first)[j].second = rec.second
              /\ Entries(mCallbackMap, rec.first)[j].first # last.cb

\* ------------------------------------------------------------------ C9
\* Parts of C9 that do not depend on the first call's result: an unsub(tag)
\* that follows an unsub(tag) which returned true returns false, and it, like
\* any unsub of a tag that is not REGISTERED, changes neither the registry
\* nor the dispatch table.
C9_SecondUnsub ==
    /\ (/\ last.op = "mgrUnsub" /\ last.ret = "true"
        /\ last'.op = "mgrUnsub" /\ last'.mgr = last.mgr /\ last'.tag = last.tag) =>
            /\ last'.ret = "false"
            /\ UNCHANGED <<mSubscriptions, mCallbackMap>>
    /\ (last'.op = "mgrUnsub" /\ last'.tag \notin DOMAIN mSubscriptions[last'.mgr]) =>
            /\ last'.ret = "false"
            /\ UNCHANGED <<mSubscriptions, mCallbackMap>>

\* What the first call does when it returns true: the tag's record is gone,
\* the recorded entry is removed and every other entry stays in its order.
C9_FirstUnsubRemoved ==
    LET rec == mSubscriptions[last'.mgr][last'.tag]
    IN  /\ last'.ret = "true"
        /\ mSubscriptions' = [mSubscriptions EXCEPT
                                 ![last'.mgr] = MapErase(@, last'.tag)]
        /\ \E j \in DOMAIN Entries(mCallbackMap, rec.first) :
              /\ Entries(mCallbackMap, rec.first)[j].second = rec.second
              /\ Entries(mCallbackMap', rec.first)
                    = Without(Entries(mCallbackMap, rec.first), j)
        /\ \A k \in Kinds \ {rec.first} :
              Entries(mCallbackMap', k) = Entries(mCallbackMap, k)

\* C9 as stated: unsub(tag) called twice in a row on a REGISTERED tag returns
\* true the first time (removing the underlying entry and the tag's record)
\* and false the second time; the second call, like any unsub of a tag that
\* is not REGISTERED, changes neither the tag registry nor the dispatch table.
C9_UnsubTwiceTrueThenFalse ==
    [][ /\ (last'.op = "mgrUnsub" /\ last'.tag \in DOMAIN mSubscriptions[last'.mgr])
              => C9_FirstUnsubRemoved
        /\ C9_SecondUnsub
      ]_vars

\* C9 as amended: the first call returns true on a REGISTERED tag whose
\* recorded entry is still in the dispatch table (no unsub was called
\* directly on the Subscriber with its ID and kind); the rest as stated.
C9_UnsubTwiceTrueThenFalseWhenEntryLive ==
    [][ /\ (/\ last'.op = "mgrUnsub"
            /\ last'.tag \in DOMAIN mSubscriptions[last'.mgr]
            /\ IsLive(subLog, mSubscriptions[last'.mgr][last'.tag].first,
                      mSubscriptions[last'.mgr][last'.tag].second))
              => C9_FirstUnsubRemoved
        /\ C9_SecondUnsub
      ]_vars

\* C9 happens: an unsub(tag) returned false right after the same call
\* returned true, with another subscription left in the table.
C9_Witness ==
    /\ last.op = "mgrUnsub"
    /\ last.prev = "true"
    /\ last.ret = "false"
    /\ mCallbackMap # EmptyMap

\* ------------------------------------------------------------------ C10
\* C10: after a SubscriptionManager is torn down, or right after its
\* ubsubFromAll, its tag registry is empty and no dispatch-table entry
\* created through that manager remains; no pub invokes a callback of a
\* torn-down manager, nor any callback whose subscription was removed.
C10_TeardownRemovesEveryRegistration ==
    /\ \A m \in Managers :
          (mgrState[m] = "destroyed" \/ (last.op = "ubsubFromAll" /\ last.mgr = m)) =>
              /\ mSubscriptions[m] = EmptyMap
              /\ \A i \in DOMAIN subLog :
                    subLog[i].via = m => subLog[i].id \notin TableIDs(mCallbackMap)
    /\ last.op = "pub" =>
          \A i \in DOMAIN subLog :
              (\/ ~subLog[i].live
               \/ (subLog[i].via \in Managers /\ mgrState[subLog[i].via] = "destroyed"))
                  => subLog[i].id \notin FiredIDs

\* C10 happens: the teardown of a manager that held two registrations, next
\* to a directly registered callback, which stays.
C10_Witness ==
    /\ last.op = "mgrDtor"
    /\ last.n = 2
    /\ mgrState[last.mgr] = "destroyed"
    /\ mCallbackMap # EmptyMap

\* ------------------------------------------------------------------ C11
\* The subscriptions made through manager m under tag t whose entry is in
\* the dispatch table.
TagEntries(m, t) ==
    {i \in DOMAIN subLog :
        /\ subLog[i].via = m
        /\ subLog[i].tag = t
        /\ subLog[i].id \in EntryIDs(mCallbackMap, subLog[i].kind)}

\* C11: in every state reachable by SubscriptionManager sub, unsub and
\* ubsubFromAll (and direct use of the Subscriber next to them), each tag has
\* at most one dispatch-table entry registered through the manager under
\* that tag, and a tag that has one has the record of it.
C11_AtMostOneEntryPerTag ==
    \A m \in Managers : \A t \in Tags :
        /\ Cardinality(TagEntries(m, t)) <= 1
        /\ \A i \in TagEntries(m, t) :
              /\ t \in DOMAIN mSubscriptions[m]
              /\ mSubscriptions[m][t] = Pair(subLog[i].kind, subLog[i].id)

\* C11 happens: both tags of a manager hold an entry of the same kind, after
\* an earlier registration of that manager was removed.
C11_Witness ==
    \E m \in Managers :
        /\ \A t \in Tags : Cardinality(TagEntries(m, t)) = 1
        /\ \E k \in Kinds : \A t \in Tags : \A i \in TagEntries(m, t) : subLog[i].kind = k
        /\ \E i \in DOMAIN subLog : subLog[i].via = m /\ ~subLog[i].live

\* ------------------------------------------------------------------ C12
\* C12: a tag that is not REGISTERED can be registered: sub(tag, kind, cb)
\* returns true, records (kind, ID) under the tag with an ID that no earlier
\* sub returned, and appends (cb, ID) to the sequence of kind; a successful
\* unsub(tag), and ubsubFromAll, leave the tag not REGISTERED; and no pub
\* invokes the callback of a removed registration.
C12_TagReusableAfterUnsub ==
    [][ /\ (last'.op = "mgrSub" /\ last'.tag \notin DOMAIN mSubscriptions[last'.mgr]) =>
              /\ last'.ret = "true"
              /\ \A i \in DOMAIN subLog : subLog[i].id < last'.id
              /\ mSubscriptions' = [mSubscriptions EXCEPT ![last'.mgr] =
                      MapPut(@, last'.tag, Pair(last'.kind, last'.id))]
              /\ Entries(mCallbackMap', last'.kind)
                    = Append(Entries(mCallbackMap, last'.kind), Pair(last'.cb, last'.id))
              /\ \A k \in Kinds \ {last'.kind} :
                    Entries(mCallbackMap', k) = Entries(mCallbackMap, k)
        /\ (last'.op = "mgrUnsub" /\ last'.ret = "true") =>
              last'.tag \notin DOMAIN mSubscriptions'[last'.mgr]
        /\ last'.op = "ubsubFromAll" => mSubscriptions'[last'.mgr] = EmptyMap
        /\ last'.op = "pub" =>
              \A i \in DOMAIN subLog' : ~subLog'[i].live => subLog'[i].id \notin FiredIDs'
      ]_vars

\* C12 happens: a sub returned true on a tag whose earlier registration was
\* removed (the manager's other tag has held an older entry all along, so the
\* removed registration lying between the two was made under this tag).
C12_Witness ==
    /\ last.op = "mgrSub"
    /\ last.ret = "true"
    /\ \E i, j \in DOMAIN subLog :
          /\ subLog[i].via = last.mgr /\ subLog[i].live
          /\ subLog[i].tag # last.tag
          /\ subLog[j].via = last.mgr /\ ~subLog[j].live
          /\ subLog[i].id < subLog[j].id
          /\ subLog[j].id < last.id

\* ------------------------------------------------------------------ C15
\* The record of tag t in manager m names an ID that is in no entry of the
\* recorded kind: the Subscriber's unsub of it fails.
StaleRecord(m, t) ==
    /\ t \in DOMAIN mSubscriptions[m]
    /\ mSubscriptions[m][t].second \notin EntryIDs(mCallbackMap, mSubscriptions[m][t].first)

\* C15: unsub(tag) on a REGISTERED tag whose underlying removal fails
\* returns false and changes neither the registry nor the table; the sub and
\* the unsub of that tag that follow it return false as well.
C15_FailedRemovalKeepsRecord ==
    [][ /\ (last'.op = "mgrUnsub" /\ StaleRecord(last'.mgr, last'.tag)) =>
              /\ last'.ret = "false"
              /\ UNCHANGED <<mSubscriptions, mCallbackMap>>
              /\ last'.tag \in DOMAIN mSubscriptions'[last'.mgr]
        /\ ( /\ last.op = "mgrUnsub" /\ last.ret = "false"
             /\ last.tag \in DOMAIN mSubscriptions[last.mgr]
             /\ last'.op \in {"mgrSub", "mgrUnsub"}
             /\ last'.mgr = last.mgr /\ last'.tag = last.tag ) =>
              /\ last'.ret = "false"
              /\ UNCHANGED <<mSubscriptions, mCallbackMap>>
      ]_vars

\* C15 happens: the unsub of a REGISTERED tag returned false twice in a row
\* and the record is still there.
C15_Witness ==
    /\ last.op = "mgrUnsub"
    /\ last.ret = "false"
    /\ last.prev = "false"
    /\ StaleRecord(last.mgr, last.tag)

\* ------------------------------------------------------------------ C16
\* C16: every callback invocation made by pub passes an event whose runtime
\* kind is the kind the callback was registered under (and the published
\* one), so narrowing to the registered kind inside the callback succeeds.
C16_InvokedWithRegisteredKind ==
    last.op = "pub" =>
        \A i \in DOMAIN fired :
            /\ fired[i].e = last.kind
            /\ \E j \in DOMAIN subLog :
                  /\ subLog[j].live
                  /\ subLog[j].id = fired[i].id
                  /\ subLog[j].cb = fired[i].cb
                  /\ subLog[j].kind = fired[i].e

\* C16 happens: a pub invoked a callback while the other kind has a
\* subscriber too.
C16_Witness ==
    /\ last.op = "pub"
    /\ fired # <<>>
    /\ \E k \in Kinds \ {last.kind} : Entries(mCallbackMap, k) # <<>>

\* ------------------------------------------------- Event::unpack
\* Event instances: the runtime kind and the identity of the object.
Objects == {"ev1", "ev2"}
Events  == [kind : Kinds, obj : Objects]

\* The null pointer a failed dynamic_cast yields.
nullptr == [kind |-> NONE, obj |-> NONE]

\* dynamic_cast<EventType const*>(p): p itself when the object is an
\* EventType, else null.  The event kinds are declared as direct children of
\* Event, none derives from another, so being an EventType is having it as
\* the runtime kind.
dynamic_cast(EventType, p) ==
    IF p.kind = EventType THEN p ELSE nullptr

\* A faulty unpack: the cast is not checked (the arm compiled under NDEBUG)
\* although the checks are enabled.
Faulty_unpack_Unchecked(this, EventType) ==
    [ret |-> "ref", out |-> this]

\* Event::unpack<EventType>() of EventSys.hpp, built without NDEBUG: the
\* assert ends the program when the cast yields null.
Event_unpack(this, EventType) ==
    LET downCastPtr == dynamic_cast(EventType, this)
    IN  IF downCastPtr # nullptr
        THEN [ret |-> "ref",   out |-> downCastPtr]
        ELSE [ret |-> "abort", out |-> nullptr]

\* Event::unpack<EventType>(e) of main.cpp, built without NDEBUG: the cast
\* is applied to the argument e, not to the object the call is made on.
Main_Event_unpack(this, e, EventType) ==
    LET downCastPtr == dynamic_cast(EventType, e)
    IN  IF downCastPtr # nullptr
        THEN [ret |-> "ref",   out |-> downCastPtr]
        ELSE [ret |-> "abort", out |-> nullptr]

\* The record of an unpack: e is the event that was narrowed, to the kind
\* asked for, out the object the returned reference denotes.
OpUnpack(e, EventType, r) ==
    [op |-> "unpack", kind |-> e.kind, id |-> 0, cb |-> NONE, tag |-> NONE,
     mgr |-> NONE, ret |-> r.ret, prev |-> NONE, n |-> 0,
     e |-> e, to |-> EventType, out |-> r.out]

\* The failed assert has ended the program.
Aborted == last.ret = "abort"

HppUnpack(this, EventType) ==
    /\ impl = HPP
    /\ ~Aborted
    /\ last'  = OpUnpack(this, EventType, Event_unpack(this, EventType))
    /\ fired' = <<>>
    /\ UNCHANGED <<impl, mCallbackMap, mNextSubscriptionID, mgrState, mSubscriptions, subLog>>

MainUnpack(this, e, EventType) ==
    /\ impl = MAIN
    /\ ~Aborted
    /\ last'  = OpUnpack(e, EventType, Main_Event_unpack(this, e, EventType))
    /\ fired' = <<>>
    /\ UNCHANGED <<impl, mCallbackMap, mNextSubscriptionID, mgrState, mSubscriptions, subLog>>

\* Both implementations, with events being narrowed between the calls.
NextUnpack ==
    \/ ~Aborted /\ Next
    \/ \E this \in Events, EventType \in Kinds : HppUnpack(this, EventType)
    \/ \E this, e \in Events, EventType \in Kinds : MainUnpack(this, e, EventType)

SpecUnpack == Init /\ [][NextUnpack]_vars

\* ------------------------------------------------------------------ C17
\* C17: with the runtime checks enabled, narrowing an event to EventType
\* returns that same instance when its runtime kind is EventType, and ends
\* the program in the failed assertion, returning nothing, when it is not;
\* nothing runs after the abort, and the event system is left as it was.
C17_UnpackReturnsInstanceOrAborts ==
    [][ /\ ~Aborted
        /\ last'.op = "unpack" =>
              /\ (last'.e.kind = last'.to) =>
                    (last'.ret = "ref" /\ last'.out = last'.e)
              /\ (last'.e.kind # last'.to) =>
                    (last'.ret = "abort" /\ last'.out = nullptr)
              /\ UNCHANGED <<mCallbackMap, mNextSubscriptionID, subLog>>
      ]_vars

\* C17 happens: an event of one kind was narrowed to another kind, with
\* subscriptions in place, and the program aborted.
C17_Witness ==
    /\ last.op = "unpack"
    /\ last.e.kind # last.to
    /\ Aborted
    /\ mCallbackMap # EmptyMap

\* --------------------------------------- unsub with an expected kind
\* manager.unsub(subscriptionTag), called by code that believes the tag to
\* be registered for EventType.  SubscriptionManager has this one unsub and
\* it takes the tag alone: the belief is no argument of the call, it is
\* written down in the record of the operation only.
MgrUnsubExpecting(m, subscriptionTag, EventType) ==
    /\ impl = HPP
    /\ mgrState[m] = "alive"
    /\ LET subs == mSubscriptions[m]
           r    == SubscriptionManager_unsub(subs, mCallbackMap, subscriptionTag)
       IN  /\ mSubscriptions' = [mSubscriptions EXCEPT ![m] = r.mSubscriptions]
           /\ mCallbackMap' = r.mCallbackMap
           /\ subLog' = IF subscriptionTag \in DOMAIN subs
                        THEN MarkUnsub(subLog, subs[subscriptionTag].first,
                                       subs[subscriptionTag].second)
                        ELSE subLog
           /\ last' = [OpMgrUnsub(m, subscriptionTag, BoolText(r.ret)) EXCEPT
                          !.kind = EventType]
    /\ fired' = <<>>
    /\ UNCHANGED <<impl, mNextSubscriptionID, mgrState>>

\* EventSys.hpp used through a SubscriptionManager by code that unsubscribes
\* with a kind in mind.
NextExpecting ==
    \/ \E m \in Managers, t \in Tags, k \in Kinds, cb \in Callbacks : MgrSub(m, t, k, cb)
    \/ \E m \in Managers, t \in Tags, k \in Kinds : MgrUnsubExpecting(m, t, k)
    \/ \E k \in Kinds : HppPub(k)

SpecExpecting == InitMgr /\ [][NextExpecting]_vars

\* ------------------------------------------------------------------ C13
\* C13: an unsub of a REGISTERED tag made with an expected kind that is not
\* the kind recorded for the tag returns false and changes neither the
\* registry nor the dispatch table.
C13_UnsubOfOtherKindRefused ==
    [][ ( /\ last'.op = "mgrUnsub"
          /\ last'.tag \in DOMAIN mSubscriptions[last'.mgr]
          /\ last'.kind # mSubscriptions[last'.mgr][last'.tag].first ) =>
              /\ last'.ret = "false"
              /\ UNCHANGED <<mSubscriptions, mCallbackMap>>
      ]_vars

\* With the expected kind equal to the recorded one the call does what
\* unsub(tag) does.
C13_UnsubOfRecordedKind ==
    [][ ( /\ last'.op = "mgrUnsub"
          /\ last'.tag \in DOMAIN mSubscriptions[last'.mgr]
          /\ last'.kind = mSubscriptions[last'.mgr][last'.tag].first ) =>
              LET r == SubscriptionManager_unsub(mSubscriptions[last'.mgr], mCallbackMap,
                                                 last'.tag)
              IN  /\ last'.ret = BoolText(r.ret)
                  /\ mSubscriptions'[last'.mgr] = r.mSubscriptions
                  /\ mCallbackMap' = r.mCallbackMap
      ]_vars

\* ------------------------------------- direct unsub of own IDs only
\* The IDs that Subscriber::sub returned to direct callers.
DirectIDs == {subLog[i].id : i \in {j \in DOMAIN subLog : subLog[j].via = DIRECT}}

\* subscriber.unsub<EventType>(subID) by a caller that passes only IDs it
\* got from subscriber.sub.
HppUnsubOwn(EventType, subID) ==
    /\ subID \in DirectIDs
    /\ HppUnsub(EventType, subID)

\* EventSys.hpp used through SubscriptionManagers and directly, the direct
\* callers unsubscribing their own IDs only.
NextOwn ==
    \/ \E k \in Kinds, cb \in Callbacks : HppSub(k, cb)
    \/ \E k \in Kinds, id \in 1 .. MaxSubs : HppUnsubOwn(k, id)
    \/ \E k \in Kinds : HppPub(k)
    \/ \E m \in Managers, t \in Tags, k \in Kinds, cb \in Callbacks : MgrSub(m, t, k, cb)
    \/ \E m \in Managers, t \in Tags : MgrUnsub(m, t)
    \/ \E m \in Managers : MgrUbsubFromAll(m)
    \/ \E m \in Managers : MgrDtor(m)

SpecOwn == InitMgr /\ [][NextOwn]_vars

\* ------------------------------------------------------------------ C18
\* Every record of every manager names exactly one entry of the sequence of
\* the recorded kind, and no entry of another kind.
RecordsMatchEntries ==
    \A m \in Managers : \A t \in DOMAIN mSubscriptions[m] :
        LET rec == mSubscriptions[m][t]
        IN  /\ Cardinality({j \in DOMAIN Entries(mCallbackMap, rec.first) :
                               Entries(mCallbackMap, rec.first)[j].second = rec.second}) = 1
            /\ \A k \in Kinds \ {rec.first} : rec.second \notin EntryIDs(mCallbackMap, k)

\* C18: with direct unsub called only with IDs that direct sub returned,
\* every record tag -> (kind, id) of a manager matches exactly one entry with
\* that id in the sequence of that kind, and unsub(tag) on a REGISTERED tag
\* returns true.
C18_RecordsAlwaysMatchLiveEntry ==
    [][ /\ RecordsMatchEntries'
        /\ (last'.op = "mgrUnsub" /\ last'.tag \in DOMAIN mSubscriptions[last'.mgr]) =>
              last'.ret = "true"
      ]_vars

\* C18 happens: unsub(tag) returned true with direct subscriptions around
\* it, one of them removed by its owner, and another tag still REGISTERED.
C18_Witness ==
    /\ last.op = "mgrUnsub"
    /\ last.ret = "true"
    /\ mSubscriptions[last.mgr] # EmptyMap
    /\ \E i \in DOMAIN subLog : subLog[i].via = DIRECT /\ ~subLog[i].live

\* ------------------------------------------- two managers, one Subscriber
\* EventSys.hpp's EventSystem with every SubscriptionManager constructed on
\* its one Subscriber.
InitShared ==
    /\ impl = HPP
    /\ mCallbackMap = EmptyMap
    /\ mNextSubscriptionID = 1
    /\ mgrState = [m \in Managers |-> "alive"]
    /\ mSubscriptions = [m \in Managers |-> EmptyMap]
    /\ subLog = <<>>
    /\ fired = <<>>
    /\ last = NoOp

\* The kinds and callbacks subscribed here: everybody subscribes to the one
\* kind, so that the entries of the managers and of the direct callers lie
\* in one sequence, and which callable an entry holds plays no part in what
\* the managers remove.
SharedKinds     == {"EventType1"}
SharedCallbacks == {"cbA"}

\* The managers and the direct callers subscribing and unsubscribing on the
\* shared Subscriber.
NextShared ==
    \/ \E k \in SharedKinds, cb \in SharedCallbacks : HppSub(k, cb)
    \/ \E k \in SharedKinds, id \in UnsubIDs : HppUnsub(k, id)
    \/ \E m \in Managers, t \in Tags, k \in SharedKinds, cb \in SharedCallbacks : MgrSub(m, t, k, cb)
    \/ \E m \in Managers, t \in Tags : MgrUnsub(m, t)
    \/ \E m \in Managers : MgrUbsubFromAll(m)
    \/ \E m \in Managers : MgrDtor(m)

SpecShared == InitShared /\ [][NextShared]_vars

\* ------------------------------------------------------------------ C19
\* The IDs that sub calls made through manager m returned.
IDsOf(m) == {subLog[i].id : i \in {j \in DOMAIN subLog : subLog[j].via = m}}

\* The entries of kind k that were not created through manager m, in the
\* order of the sequence.
Foreign(map, k, m) ==
    LET NotOfM(entry) == entry.second \notin IDsOf(m)
    IN  SelectSeq(Entries(map, k), NotOfM)

\* C19: unsub(tag), ubsubFromAll and the destructor of a manager remove and
\* reorder no entry that was not created through that manager: the entries
\* of direct subscriptions and of the other managers stay, in order, also
\* when the manager holds a record whose entry is gone already.
C19_ManagerLeavesForeignEntries ==
    [][ last'.op \in {"mgrUnsub", "ubsubFromAll", "mgrDtor"} =>
            \A k \in Kinds :
                Foreign(mCallbackMap', k, last'.mgr) = Foreign(mCallbackMap, k, last'.mgr)
      ]_vars

\* C19 happens: a manager was cleared or destroyed and removed its entry
\* from between a direct subscription and one of the other manager, which
\* are both still in the sequence.
C19_Witness ==
    /\ last.op \in {"ubsubFromAll", "mgrDtor"}
    /\ \E k \in Kinds : \E a, b, c \in DOMAIN subLog :
          /\ subLog[a].live /\ subLog[a].kind = k
          /\ subLog[c].live /\ subLog[c].kind = k
          /\ {subLog[a].via, subLog[c].via} = {DIRECT} \cup (Managers \ {last.mgr})
          /\ subLog[b].via = last.mgr /\ ~subLog[b].live
          /\ subLog[a].id < subLog[b].id /\ subLog[b].id < subLog[c].id
          /\ {subLog[a].id, subLog[c].id} \subseteq EntryIDs(mCallbackMap, k)

\* ------------------------------------ callbacks that call sub and unsub
\* Callbacks that use the event system while pub is invoking them.  Handed
\* an event of kind k from the entry with the ID id:
\*   cbA           calls nothing;
\*   cbUnsubSelf   calls unsub<k>(id), removing its own entry;
\*   cbSubSame     calls sub<k>(cbA);
\*   cbSubOther    calls sub<k2>(cbA) for the other kind k2;
\*   cbUnsubOther  calls unsub<k2>(id2) with the ID of the first entry of the
\*                 other kind (INVALID_SUBSCRIPTION_ID when it has none).
ReCallbacks == {"cbA", "cbUnsubSelf", "cbSubSame", "cbSubOther", "cbUnsubOther"}

Other(k) == CHOOSE k2 \in Kinds : k2 # k

NoCall == [op |-> "none", kind |-> NONE, id |-> 0, cb |-> NONE]

\* The call that callback cb makes when entry id hands it an event of kind k.
CallOf(cb, k, id, map) ==
    CASE cb = "cbUnsubSelf"  -> [op |-> "unsub", kind |-> k, id |-> id, cb |-> NONE]
      [] cb = "cbSubSame"    -> [op |-> "sub", kind |-> k, id |-> 0, cb |-> "cbA"]
      [] cb = "cbSubOther"   -> [op |-> "sub", kind |-> Other(k), id |-> 0, cb |-> "cbA"]
      [] cb = "cbUnsubOther" ->
            [op |-> "unsub", kind |-> Other(k),
             id |-> IF Other(k) \in DOMAIN map THEN map[Other(k)][1].second ELSE 0,
             cb |-> NONE]
      [] OTHER               -> NoCall

\* A faulty loop: it goes through the map iterator `it' at every step, so a
\* call that inserts or erases a key of the map (a rehash, an erase)
\* invalidates it too.
Faulty_Invalidates_MapIterator(before, after, kind) ==
    \/ (IF kind \in DOMAIN after THEN after[kind] ELSE <<>>)
          # (IF kind \in DOMAIN before THEN before[kind] ELSE <<>>)
    \/ DOMAIN after # DOMAIN before

\* Whether a call that took the table from `before' to `after' invalidates
\* the iterators of the range-for of pub(kind).  The loop holds a reference
\* to the vector of kind, taken once, and two iterators into it: erase_if
\* invalidates the iterators from the erased entry on, emplace_back the end
\* iterator (all of them when it reallocates), erasing the key destroys the
\* vector.  Inserting or erasing another key leaves references to the
\* elements of the unordered_map, and so the vector and its iterators, valid.
Invalidates(before, after, kind) ==
    (IF kind \in DOMAIN after THEN after[kind] ELSE <<>>)
        # (IF kind \in DOMAIN before THEN before[kind] ELSE <<>>)

\* One invocation of the loop body: the callback of `entry' runs and makes
\* its call.  st is the state of the loop: the table, the counter and the
\* log, the position of the iterator (pos), the end iterator and the
\* contents of the vector as they were when the loop began (end, old), the
\* invocations and calls made so far, and whether a call has invalidated
\* the iterators (ub): the loop uses them as soon as the callback returns.
Invoke(st, entry, kind) ==
    LET call == CallOf(entry.first, kind, entry.second, st.map)
        s    == Subscriber_sub(st.map, st.next, call.kind, call.cb)
        u    == Subscriber_unsub_EventType(st.map, call.kind, call.id)
        map2 == CASE call.op = "sub"   -> s.mCallbackMap
                  [] call.op = "unsub" -> u.mCallbackMap
                  [] OTHER             -> st.map
    IN  [st EXCEPT
            !.map   = map2,
            !.next  = IF call.op = "sub" THEN s.mNextSubscriptionID ELSE @,
            !.log   = CASE call.op = "sub" ->
                             Append(@, SubRecord(s.subID, call.kind, call.cb, DIRECT, NONE))
                        [] call.op = "unsub" -> MarkUnsub(@, call.kind, call.id)
                        [] OTHER -> @,
            !.pos   = @ + 1,
            !.fired = Append(@, [cb |-> entry.first, id |-> entry.second, e |-> kind]),
            !.calls = IF call.op = "none" THEN @ ELSE Append(@, call),
            !.ub    = @ \/ Invalidates(st.map, map2, kind)]

\* The range-for of pub from the loop state st on: the set of loop states
\* it can end in.  While the iterators are valid the entry at pos is read.
\* Once they are not, going on is undefined behaviour: short of the old end
\* the loop may fault or throw (an empty std::function) and end there, or
\* read at pos what the vector holds there now, or what the storage held
\* when the loop began.
RECURSIVE Dispatch(_, _)
Dispatch(st, kind) ==
    IF st.pos > st.end THEN {st}
    ELSE LET cur == IF kind \in DOMAIN st.map THEN st.map[kind] ELSE <<>>
         IN  IF ~st.ub
             THEN Dispatch(Invoke(st, cur[st.pos], kind), kind)
             ELSE LET reads == {st.old[st.pos]}
                                 \cup (IF st.pos <= Len(cur) THEN {cur[st.pos]} ELSE {})
                  IN  {st} \cup UNION {Dispatch(Invoke(st, entry, kind), kind) :
                                          entry \in reads}

\* Publisher::pub(e), typeid(e) = kind, with callbacks that call back into
\* the event system: the loop states it can end in.
Publisher_pub_Reentrant(map, nextID, log, kind) ==
    LET callbackVector == IF kind \in DOMAIN map THEN map[kind] ELSE <<>>
    IN  Dispatch([map |-> map, next |-> nextID, log |-> log,
                  pos |-> 1, end |-> Len(callbackVector), old |-> callbackVector,
                  fired |-> <<>>, calls |-> <<>>, ub |-> FALSE], kind)

\* The record of a pub: the calls its callbacks made, and "ub" for the
\* result when the loop went on with invalidated iterators.
OpPub(kind, r) ==
    [op |-> "pub", kind |-> kind, id |-> 0, cb |-> NONE, tag |-> NONE, mgr |-> DIRECT,
     ret |-> IF r.ub THEN "ub" ELSE "void", prev |-> NONE, n |-> 0,
     calls |-> r.calls]

\* The program has run into undefined behaviour: nothing is known of it from
\* there on.
Undefined == last.ret = "ub"

\* Bound: the subscriptions that the callbacks of one pub may add, on top of
\* the MaxSubs made from outside callbacks.
MaxCallbackSubs == 1

\* The number of sub calls the callbacks of kind make in one pub.
SubCalls(map, kind) ==
    Cardinality({j \in DOMAIN (IF kind \in DOMAIN map THEN map[kind] ELSE <<>>) :
                    map[kind][j].first \in {"cbSubSame", "cbSubOther"}})

\* getPublisher().pub(e), typeid(e) = kind
RePub(kind) ==
    /\ impl = HPP
    /\ ~Undefined
    /\ SubCalls(mCallbackMap, kind) <= MaxCallbackSubs
    /\ Len(subLog) + SubCalls(mCallbackMap, kind) <= MaxSubs + MaxCallbackSubs
    /\ \E r \in Publisher_pub_Reentrant(mCallbackMap, mNextSubscriptionID, subLog, kind) :
          /\ mCallbackMap' = r.map
          /\ mNextSubscriptionID' = r.next
          /\ subLog' = r.log
          /\ fired' = r.fired
          /\ last' = OpPub(kind, r)
    /\ UNCHANGED <<impl, mgrState, mSubscriptions>>

ReSub(EventType, callback) ==
    /\ ~Undefined
    /\ HppSub(EventType, callback)

ReUnsub(EventType, subID) ==
    /\ ~Undefined
    /\ HppUnsub(EventType, subID)

\* EventSys.hpp used by callbacks as well as from outside them.
NextReentrant ==
    \/ \E k \in Kinds, cb \in ReCallbacks : ReSub(k, cb)
    \/ \E k \in Kinds, id \in UnsubIDs : ReUnsub(k, id)
    \/ \E k \in Kinds : RePub(k)

SpecReentrant == InitMgr /\ [][NextReentrant]_vars

\* ------------------------------------------------------------------ C14
\* C14: a pub whose callbacks call sub or unsub on the kind being published
\* never goes on with iterators into a sequence that such a call erased
\* from, moved or pruned, so what it invokes is determined by the state at
\* its start and the callbacks' calls.
C14_ReentrantPubNeverReadsInvalidated ==
    last.op = "pub" => last.ret = "void"

\* ------------------------------------------------------------------ C20
\* The callbacks subscribed for kind k call sub and unsub for other kinds
\* only.
OnlyOtherKinds(map, k) ==
    \A j \in DOMAIN Entries(map, k) :
        CallOf(Entries(map, k)[j].first, k, Entries(map, k)[j].second, map).kind # k

\* C20: a pub of kind k whose callbacks call sub and unsub only for kinds
\* other than k invokes exactly the callbacks registered for k when it
\* began, each once, in registration order, and leaves the sequence of k as
\* it was.
C20_OtherKindCallsLeavePubIntact ==
    [][ (last'.op = "pub" /\ OnlyOtherKinds(mCallbackMap, last'.kind)) =>
            /\ last'.ret = "void"
            /\ fired' = [i \in DOMAIN Entries(mCallbackMap, last'.kind) |->
                            [cb |-> Entries(mCallbackMap, last'.kind)[i].first,
                             id |-> Entries(mCallbackMap, last'.kind)[i].second,
                             e  |-> last'.kind]]
            /\ Entries(mCallbackMap', last'.kind) = Entries(mCallbackMap, last'.kind)
      ]_vars

\* C20 happens: during one pub the first callback pruned the other kind's
\* last entry, the second created the other kind's key anew, and both were
\* invoked, in that order.
C20_Witness ==
    /\ last.op = "pub"
    /\ Len(fired) = 2
    /\ Len(last.calls) = 2
    /\ last.calls[1].op = "unsub" /\ last.calls[1].id # INVALID_SUBSCRIPTION_ID
    /\ last.calls[2].op = "sub"
    /\ \A c \in {1, 2} : last.calls[c].kind # last.kind
    /\ Len(Entries(mCallbackMap, Other(last.kind))) = 1

====
